---- MODULE Spec2Model ----
(***************************************************************************)
(* Model of src/lib.rs: Subrc<T, U>, a reference counted pointer to a      *)
(* sub-region of an Rc<T>.  Memory is a line of cells; sizes and addresses *)
(* are counted in cells.  One monomorphisation Subrc<T, U> is modelled:    *)
(* TSize is size_of::<T>() and USize is size_of::<U>().                    *)
(***************************************************************************)
EXTENDS Integers, FiniteSets, Sequences, Bags, TLC

\* ---- bounds -----------------------------------------------------------
\* largest size_of::<T>() and size_of::<U>()
MaxSize == 2
\* Rc<T> shares alive at once, inside handles or outside
MaxHolders == 2
\* Rc<T> allocations
NumRc == 2

\* ---- layout of std::rc::Rc: strong and weak count precede the value ----
RcHeaderSize == 2

Rcs == 1..NumRc
TSizes == 0..MaxSize
USizes == 0..MaxSize

\* the allocator: allocation r is a header followed by the value, with room
\* for another T before the header and after the value
Stride == 2 * MaxSize + RcHeaderSize + 2
RcAddr(r) == (r - 1) * Stride + MaxSize + 1 + RcHeaderSize
\* addresses a getter called on allocation r returns: from before the header
\* to past the value; an address further away compares like the nearest of these
Near(r) == (RcAddr(r) - RcHeaderSize - 1)..(RcAddr(r) + MaxSize)
\* addresses at which another T can start
Around(r) == (RcAddr(r) - RcHeaderSize - MaxSize - 1)..(RcAddr(r) + MaxSize)

\* values of T; "NaN" stands for a value that is not equal to itself
Values == {"x", "NaN"}

VARIABLES
    TSize,      \* size_of::<T>()
    USize,      \* size_of::<U>()
    alive,      \* alive[r]: the Rc allocation r exists (value not dropped)
    val,        \* val[r]: the T value
    strong,     \* strong[r]: Rc strong count
    ext,        \* ext[r]: Rc<T> shares held outside Subrc handles
    handles,    \* the bag of Subrc values that exist: [rc, offset]
    pc,         \* "idle", or "in_new" while Subrc::new has the getter's result
    call,       \* the call of Subrc::new in flight
    last        \* what the last operation returned to its caller

vars == <<TSize, USize, alive, val, strong, ext, handles, pc, call, last>>

Subrc(r, o) == [rc |-> r, offset |-> o]
One(h) == SetToBag({h})
Live(h) == BagIn(h, handles)
NoCall == [rc |-> 0, t_ptr |-> 0, arg |-> 0, u_ptr |-> 0, calls |-> 0]
Panic == -1

Obs(op, res, a, b) == [op |-> op, res |-> res, addr |-> a, k |-> b]

\* ext[1] + ... + ext[n]
RECURSIVE SumExt(_)
SumExt(n) == IF n = 0 THEN 0 ELSE ext[n] + SumExt(n - 1)

HandlesOn(r) == BagCardinality([h \in {x \in BagToSet(handles) : x.rc = r} |-> handles[h]])
InNew(r) == IF pc = "in_new" /\ call.rc = r THEN 1 ELSE 0

\* number of live holders of allocation r
Holders(r) == ext[r] + HandlesOn(r) + InNew(r)

\* Rc<T> shares alive
TotalHolders == SumExt(NumRc) + BagCardinality(handles) + (IF pc = "in_new" THEN 1 ELSE 0)

Init ==
    /\ TSize \in TSizes
    /\ USize \in USizes
    /\ alive = [r \in Rcs |-> FALSE]
    /\ val = [r \in Rcs |-> "x"]
    /\ strong = [r \in Rcs |-> 0]
    /\ ext = [r \in Rcs |-> 0]
    /\ handles = EmptyBag
    /\ pc = "idle"
    /\ call = NoCall
    /\ last = Obs("none", "none", 0, 0)

\* ---- std::rc::Rc as the code uses it ------------------------------------

\* Rc::new(v): a fresh allocation (first fit), one strong share, held by the caller
RcNew(r, v) ==
    /\ pc = "idle"
    /\ ~alive[r]
    /\ \A q \in Rcs : q < r => alive[q]
    /\ TotalHolders < MaxHolders
    /\ alive' = [alive EXCEPT ![r] = TRUE]
    /\ val' = [val EXCEPT ![r] = v]
    /\ strong' = [strong EXCEPT ![r] = 1]
    /\ ext' = [ext EXCEPT ![r] = 1]
    /\ last' = Obs("rc_new", "ok", RcAddr(r), 0)
    /\ UNCHANGED <<TSize, USize, handles, pc, call>>

\* dropping one Rc<T> share: the value is freed when the count reaches zero
DropRc(r) ==
    /\ strong' = [strong EXCEPT ![r] = @ - 1]
    /\ alive' = [alive EXCEPT ![r] = strong[r] - 1 > 0]

\* Rc::clone by an external holder
RcClone(r) ==
    /\ pc = "idle"
    /\ ext[r] > 0
    /\ TotalHolders < MaxHolders
    /\ ext' = [ext EXCEPT ![r] = @ + 1]
    /\ strong' = [strong EXCEPT ![r] = @ + 1]
    /\ last' = Obs("rc_clone", "ok", RcAddr(r), 0)
    /\ UNCHANGED <<TSize, USize, alive, val, handles, pc, call>>

\* an external holder drops its Rc<T>
RcDrop(r) ==
    /\ pc = "idle"
    /\ ext[r] > 0
    /\ ext' = [ext EXCEPT ![r] = @ - 1]
    /\ DropRc(r)
    /\ last' = Obs("rc_drop", "ok", RcAddr(r), 0)
    /\ UNCHANGED <<TSize, USize, val, handles, pc, call>>

\* ---- Subrc ---------------------------------------------------------------

get_offset_le(t_ptr, u_ptr) ==
    IF u_ptr <= t_ptr THEN Panic
    ELSE IF u_ptr - t_ptr >= TSize THEN Panic
    ELSE u_ptr - t_ptr

get_offset_gt(t_ptr, u_ptr) ==
    IF u_ptr < t_ptr THEN Panic
    ELSE IF u_ptr - t_ptr > TSize THEN Panic
    ELSE u_ptr - t_ptr

\* Subrc::get_offset
get_offset(t_ptr, u_ptr) ==
    IF u_ptr < t_ptr THEN Panic
    ELSE IF u_ptr - t_ptr >= TSize THEN Panic
    ELSE u_ptr - t_ptr

GetterArgCopy(r) == RcAddr(r) - RcHeaderSize - 1

\* the reference new hands to the getter: &rc, deref-coerced to &T
GetterArg(r) == RcAddr(r)

\* Subrc::new up to the return of the getter: the caller's share moves into
\* the call, &*rc is evaluated, the getter is invoked once and returns a
\* reference with address u
NewCall(r, u) ==
    /\ pc = "idle"
    /\ alive[r]
    /\ ext[r] > 0
    /\ ext' = [ext EXCEPT ![r] = @ - 1]
    /\ call' = [rc |-> r, t_ptr |-> RcAddr(r), arg |-> GetterArg(r),
                u_ptr |-> u, calls |-> 1]
    /\ pc' = "in_new"
    /\ last' = Obs("getter", "ok", u, 0)
    /\ UNCHANGED <<TSize, USize, alive, val, strong, handles>>

UnwindLeak(r) == UNCHANGED <<strong, alive>>

\* the panic path of new: unwinding drops the by-value parameter rc
Unwind(r) == DropRc(r)

\* Subrc::new from get_offset on: panic, or the handle is built
NewReturn ==
    /\ pc = "in_new"
    /\ pc' = "idle"
    /\ call' = NoCall
    /\ LET offset == get_offset(call.t_ptr, call.u_ptr) IN
         IF offset = Panic
         THEN /\ Unwind(call.rc)
              /\ last' = Obs("new", "panic", call.u_ptr, 0)
              /\ UNCHANGED handles
         ELSE /\ handles' = handles (+) One(Subrc(call.rc, offset))
              /\ last' = Obs("new", "ok", call.u_ptr, 0)
              /\ UNCHANGED <<strong, alive>>
    /\ UNCHANGED <<TSize, USize, val, ext>>

\* Subrc::get: the address of the reference it returns
get(h) == RcAddr(h.rc) + h.offset

GetAdvance(h) ==
    /\ pc = "idle"
    /\ Live(h)
    /\ last' = Obs("get", "ok", get(h), 0)
    /\ handles' = (handles (-) One(h)) (+) One(Subrc(h.rc, (h.offset + 1) % (MaxSize + 1)))
    /\ UNCHANGED <<TSize, USize, alive, val, strong, ext, pc, call>>

\* a call of Subrc::get
Get(h) ==
    /\ pc = "idle"
    /\ Live(h)
    /\ last' = Obs("get", "ok", get(h), 0)
    /\ UNCHANGED <<TSize, USize, alive, val, strong, ext, handles, pc, call>>

\* Deref::deref: self.get()
Deref(h) ==
    /\ pc = "idle"
    /\ Live(h)
    /\ last' = Obs("deref", "ok", get(h), 0)
    /\ UNCHANGED <<TSize, USize, alive, val, strong, ext, handles, pc, call>>

CloneNoInc(h) ==
    /\ pc = "idle"
    /\ Live(h)
    /\ TotalHolders < MaxHolders
    /\ handles' = handles (+) One(h)
    /\ last' = Obs("clone", "ok", get(h), 0)
    /\ UNCHANGED <<TSize, USize, alive, val, strong, ext, pc, call>>

CloneReset(h) ==
    /\ pc = "idle"
    /\ Live(h)
    /\ TotalHolders < MaxHolders
    /\ handles' = handles (+) One(Subrc(h.rc, 0))
    /\ strong' = [strong EXCEPT ![h.rc] = @ + 1]
    /\ last' = Obs("clone", "ok", get(h), 0)
    /\ UNCHANGED <<TSize, USize, alive, val, ext, pc, call>>

\* derive(Clone): rc.clone(), the offset copied
Clone(h) ==
    /\ pc = "idle"
    /\ Live(h)
    /\ TotalHolders < MaxHolders
    /\ handles' = handles (+) One(h)
    /\ strong' = [strong EXCEPT ![h.rc] = @ + 1]
    /\ last' = Obs("clone", "ok", get(h), 0)
    /\ UNCHANGED <<TSize, USize, alive, val, ext, pc, call>>

\* dropping a handle drops its field rc
Drop(h) ==
    /\ pc = "idle"
    /\ Live(h)
    /\ handles' = handles (-) One(h)
    /\ DropRc(h.rc)
    /\ last' = Obs("drop", "ok", get(h), 0)
    /\ UNCHANGED <<TSize, USize, val, ext, pc, call>>

\* T's PartialEq::eq
ValEq(v, w) == v = w /\ v # "NaN"

SubrcEqPtr(a, b) == a.rc = b.rc /\ a.offset = b.offset

\* derive(PartialEq): Rc<T>'s eq compares the values, then the offsets
SubrcEq(a, b) == ValEq(val[a.rc], val[b.rc]) /\ a.offset = b.offset

\* a comparison l == r of two handles
Eq(l, r) ==
    /\ pc = "idle"
    /\ Live(l)
    /\ Live(r)
    /\ last' = Obs("eq", IF SubrcEq(l, r) THEN "true" ELSE "false", get(l), get(r))
    /\ UNCHANGED <<TSize, USize, alive, val, strong, ext, handles, pc, call>>

Next ==
    \/ \E r \in Rcs, v \in Values : RcNew(r, v)
    \/ \E r \in Rcs : RcClone(r)
    \/ \E r \in Rcs : RcDrop(r)
    \/ \E r \in Rcs : \E u \in Near(r) : NewCall(r, u)
    \/ NewReturn
    \/ \E h \in BagToSet(handles) : Get(h)
    \/ \E h \in BagToSet(handles) : Deref(h)
    \/ \E h \in BagToSet(handles) : Clone(h)
    \/ \E h \in BagToSet(handles) : Drop(h)
    \/ \E l, r \in BagToSet(handles) : Eq(l, r)

Spec == Init /\ [][Next]_vars

\* ---- what the getter's result is, by its address -------------------------

Overlap(a1, s1, a2, s2) == a1 < a2 + s2 /\ a2 < a1 + s1

\* u is the address of a U-sized sub-region of the T held by allocation r
IsField(r, u) == RcAddr(r) <= u /\ u + USize <= RcAddr(r) + TSize

\* another T can be live at q while allocation r is: disjoint from r's
\* header and value
OtherInstanceAt(r, q) ==
    ~Overlap(q, TSize, RcAddr(r) - RcHeaderSize, RcHeaderSize + TSize)

\* u is the address of a U-sized sub-region of some other live T
IntoOther(r, u) ==
    \E q \in Around(r) : OtherInstanceAt(r, q) /\ q <= u /\ u + USize <= q + TSize

\* the allocation whose surroundings contain address a
RcOf(a) == CHOOSE r \in Rcs : a \in Near(r)

\* ---- claims --------------------------------------------------------------

\* C1: whenever the getter returns a reference to an actual field of the
\* parent (offset 0, zero-sized field and zero-sized parent included), new
\* returns a handle, and get on it returns the field's address.
C1_FieldAccepted ==
    [][(NewReturn /\ IsField(call.rc, call.u_ptr)) =>
         /\ last'.res = "ok"
         /\ \E h \in BagToSet(handles') :
               /\ handles' = handles (+) One(h)
               /\ h.rc = call.rc
               /\ RcAddr(h.rc) + h.offset = call.u_ptr]_vars

C3_Containment ==
    \A h \in BagToSet(handles) : h.offset + USize <= TSize

\* C4: when the getter returns a reference into a different live T, disjoint
\* from the allocation of the one it was given, new panics and builds no handle.
C4_OtherInstanceAborts ==
    [][(NewReturn /\ IntoOther(call.rc, call.u_ptr)) =>
         last'.res = "panic" /\ handles' = handles]_vars

C4_Witness ==
    /\ last.op = "new"
    /\ last.res = "panic"
    /\ TSize > 0
    /\ USize > 0
    /\ IntoOther(RcOf(last.addr), last.addr)
    /\ OtherInstanceAt(RcOf(last.addr), last.addr)
    /\ last.addr = RcAddr(RcOf(last.addr)) + TSize

\* C5: the strong count equals the number of live holders, a parent with a
\* holder (a handle in particular) is alive, and a parent is freed only by
\* the step that leaves it without holders.
C5_LastHolderFrees ==
    /\ [](\A r \in Rcs : strong[r] = Holders(r) /\ (Holders(r) > 0 => alive[r]))
    /\ [](\A h \in BagToSet(handles) : alive[h.rc])
    /\ [][\A r \in Rcs : (alive[r] /\ ~alive'[r]) =>
            /\ Holders(r) = 1
            /\ ext'[r] = 0
            /\ \A h \in BagToSet(handles') : h.rc # r]_vars

C5_Witness ==
    \E r \in Rcs :
        /\ alive[r]
        /\ ext[r] = 0
        /\ strong[r] = 2
        /\ HandlesOn(r) = 2
        /\ last.op = "clone"

\* what C6 says about dropping one of two handles: every other handle, the
\* other copies of the dropped one included, stays, its parent alive
DropKeepsOthers ==
    \A h \in BagToSet(handles) : Drop(h) =>
        \A k \in BagToSet(handles) :
            (k # h \/ handles[h] > 1) =>
                /\ BagIn(k, handles')
                /\ CopiesIn(k, handles') = CopiesIn(k, handles) - (IF k = h THEN 1 ELSE 0)
                /\ alive'[k.rc]

\* the handles after h.clone(): those before and one more, h2
CloneAdds(h, h2) == handles' = handles (+) One(h2)

\* C6 as stated: a clone h2 of h has h == h2, get(h) and get(h2) are the same
\* address, whether or not h satisfies containment, and dropping one leaves
\* the other valid.
C6_CloneEqual ==
    [][/\ \A h \in BagToSet(handles) : Clone(h) =>
             \E h2 \in BagToSet(handles') :
                /\ CloneAdds(h, h2)
                /\ SubrcEq(h, h2)
                /\ RcAddr(h2.rc) + h2.offset = RcAddr(h.rc) + h.offset
       /\ DropKeepsOthers]_vars

\* C6 amended: h == h2 holds exactly when the parent value is equal to itself
\* under T's PartialEq; the rest as stated.
C6_CloneEqualIfReflexive ==
    [][/\ \A h \in BagToSet(handles) : Clone(h) =>
             \E h2 \in BagToSet(handles') :
                /\ CloneAdds(h, h2)
                /\ SubrcEq(h, h2) <=> ValEq(val[h.rc], val[h.rc])
                /\ RcAddr(h2.rc) + h2.offset = RcAddr(h.rc) + h.offset
       /\ DropKeepsOthers]_vars

C6_Witness ==
    /\ last.op = "clone"
    /\ \E h \in BagToSet(handles) :
          /\ handles[h] = 2
          /\ get(h) = last.addr
          /\ h.offset > 0
          /\ h.offset + USize > TSize
          /\ val[h.rc] = "x"

\* C7: l == r is true exactly when the two parent values are equal under T's
\* PartialEq and the offsets are equal, whatever the allocations.
C7_EqByValueAndOffset ==
    [][\A l, r \in BagToSet(handles) : Eq(l, r) =>
         ((last'.res = "true") <=>
            /\ ValEq(val[l.rc], val[r.rc])
            /\ l.offset = r.offset)]_vars

C7_Witness ==
    /\ last.op = "eq"
    /\ last.res = "true"
    /\ RcOf(last.addr) # RcOf(last.k)
    /\ \E l, r \in BagToSet(handles) : get(l) = last.addr /\ get(r) = last.k

\* C8: get and deref return parent address + offset and change nothing, and
\* every step leaves the handles as they are, adds one or removes one, so a
\* handle keeps its parent and offset, and every get on it returns the same
\* address.
C8_GetStable ==
    [][/\ \A h \in BagToSet(handles) : (Get(h) \/ Deref(h)) =>
             /\ last'.addr = RcAddr(h.rc) + h.offset
             /\ <<handles, strong, alive, val, ext>>' = <<handles, strong, alive, val, ext>>
       /\ \/ handles' = handles
          \/ \E h \in BagToSet(handles') : handles' = handles (+) One(h)
          \/ \E h \in BagToSet(handles) : handles' = handles (-) One(h)]_vars

C8_Witness ==
    /\ last.op = "deref"
    /\ \E h \in BagToSet(handles) :
          /\ handles[h] = 2
          /\ h.offset > 0
          /\ last.addr = get(h)

\* C9: while new is in flight the getter has been invoked exactly once, with
\* the address of the T in the allocation passed to new, which is the address
\* the offset is measured from; the invocation creates no handle.
C9_GetterOnce ==
    /\ [](pc = "in_new" =>
            /\ call.calls = 1
            /\ call.arg = RcAddr(call.rc)
            /\ call.t_ptr = call.arg
            /\ alive[call.rc])
    /\ [][(pc' = "in_new") => (pc = "idle" /\ handles' = handles)]_vars
    /\ [][(pc = "in_new") => (pc' = "idle" /\ call' = NoCall)]_vars

C9_Witness ==
    /\ pc = "in_new"
    /\ call.calls = 1
    /\ call.u_ptr # call.arg
    /\ handles # EmptyBag

\* C10: when new panics no handle is created and the share passed to new is
\* released: the strong count drops by one and the parent is freed exactly
\* when no holder remains.
C10_AbortReleasesShare ==
    [][(NewReturn /\ last'.res = "panic") =>
         /\ handles' = handles
         /\ strong'[call.rc] = strong[call.rc] - 1
         /\ \A r \in Rcs \ {call.rc} : strong'[r] = strong[r] /\ alive'[r] = alive[r]
         /\ alive'[call.rc] <=> (ext[call.rc] > 0 \/ HandlesOn(call.rc) > 0)]_vars

C10_Witness ==
    /\ last.op = "new"
    /\ last.res = "panic"
    /\ ~alive[RcOf(last.addr)]
    /\ strong[RcOf(last.addr)] = 0
====
